---------------------------- MODULE Spec2Model ----------------------------
(***************************************************************************)
(* A model of the solar-car simulation: the route model (GIS), the weather *)
(* model (WeatherForecasts) and the tick engine (Simulation).              *)
(*                                                                         *)
(* Numbers.  The program computes in floating point; the model computes in *)
(* integers, and fixes the units so that every comparison of the code is   *)
(* exact:                                                                  *)
(*   - a midpoint (a + b) / 2 is held doubled, and "d > midpoint" is       *)
(*     evaluated as "2 * d > a + b";                                       *)
(*   - lengths of the tick engine are in units of 1/3600 km (= 1/3.6 m),   *)
(*     so that speed [km/h] * time [s] is a length;                        *)
(*   - a state of charge is held in units of 1/SocScale.                   *)
(* Arrays are sequences; an index the code counts from 0 is kept 0-based   *)
(* and one is added where a sequence is subscripted.                       *)
(***************************************************************************)
EXTENDS Integers, Sequences, FiniteSets, TLC

VARIABLES
    done,                  \* the operations that have returned
    \* ---- GIS / WeatherForecasts index search ----
    path_distances,        \* GIS.path_distances (weather: distances of the culled coordinates)
    cumulative_distances,  \* the argument of calculate_closest_*_indices
    gis_indices,           \* what GIS.calculate_closest_gis_indices returned
    weather_indices,       \* what WeatherForecasts.calculate_closest_weather_indices returned
    \* ---- WeatherForecasts.get_weather_forecast_in_time ----
    weather_forecast,      \* WeatherForecasts.weather_forecast: per coordinate, its forecast rows
    indices,               \* the coordinate indices of a query
    unix_timestamps,       \* the local timestamps of a query
    forecast_rows,         \* what get_weather_forecast_in_time returned
    \* ---- cloud_cover_to_ghi_linear ----
    cloud_cover,           \* argument: cloud cover in percent, per element
    ghi,                   \* argument: clear-sky irradiance, per element
    ghi_x2000,             \* the result, times 2000
    \* ---- Simulation (the tick engine) ----
    settings,              \* the settings file: start_hour, simulation_duration,
                           \*   initial_battery_charge, lvs_power_loss
    environment,           \* what the models answer in a run: the energy the array
                           \*   produces per tick and the force the motor works against
    speed_kmh,             \* the argument of __run_simulation_calculations
    route_length,          \* Simulation.route_length
    results,               \* the SimulationResult returned (<<>> before the run)
    locals,                \* the local arrays of the run that the result does not hold
    time_zones,            \* Simulation.time_zones (<<>> while the attribute is not set)
    local_times,           \* Simulation.local_times
    basic_lvs,             \* Simulation.basic_lvs
    runs,                  \* the runs made so far: the speeds given and the result returned
    pc,                    \* the method a run was called from and has not returned to
    arrays_to_plot,        \* the list __plot_graph was given, as the call left it
    \* ---- BasicMotor ----
    motor_args,            \* the arguments: required_speed_kmh, gradients, wind_speeds, tick
    energy_in,             \* what calculate_energy_in returned
    basic_motor,           \* the BasicMotor object: input_power and consumed_energy
    \* ---- WeatherForecasts.__init__ ----
    weather_args,          \* the arguments of the constructor
    weather_files,         \* the weather save file of every race type
    weather,               \* the WeatherForecasts object under construction
    \* ---- GIS.__init__ ----
    gis_args,              \* the arguments of the constructor
    provider,              \* what the mapping provider answers
    route_files,           \* the route save file of every race type
    gis,                   \* the GIS object under construction
    \* ---- the tick grid and the driving mask ----
    grid_args,             \* the settings: tick, simulation_duration, start_hour
    tick_grid,             \* Simulation.timestamps and the not_charge mask of a run
    \* ---- GIS.update_vehicle_position ----
    position_route,        \* GIS.path_distances of the object the calls are made on
    gis_position,          \* GIS.current_index and GIS.distance_remainder
    position_calls,        \* the calls made: the increment given and the index returned
    \* ---- the weather of every tick of a run ----
    tick_weather_args,     \* the forecast, the weather index and local time of every tick
    tick_weather,          \* the weather arrays of the run
    \* ---- Simulation.time_of_initialization ----
    init_time_args,        \* start_hour and WeatherForecasts.last_updated_time
    init_time              \* Simulation.time_of_initialization

idxVars == <<path_distances, cumulative_distances, gis_indices, weather_indices>>

fcVars == <<weather_forecast, indices, unix_timestamps, forecast_rows>>

ghiVars == <<cloud_cover, ghi, ghi_x2000>>

runVars == <<settings, environment, speed_kmh, route_length, results, locals,
            time_zones, local_times, basic_lvs, runs, pc, arrays_to_plot>>

motorVars == <<motor_args, energy_in, basic_motor>>

weatherVars == <<weather_args, weather_files, weather>>

gisVars == <<gis_args, provider, route_files, gis>>

gridVars == <<grid_args, tick_grid>>

positionVars == <<position_route, gis_position, position_calls>>

tickWeatherVars == <<tick_weather_args, tick_weather>>

initTimeVars == <<init_time_args, init_time>>

restVars == <<gridVars, positionVars, tickWeatherVars, initTimeVars>>

vars == <<done, idxVars, fcVars, ghiVars, runVars, motorVars, weatherVars, gisVars, restVars>>

----------------------------------------------------------------------------
(* Bounds of the model *)

MaxSegments == 4       \* the longest route has MaxSegments segments
MaxSegmentLength == 2  \* a segment is 1..MaxSegmentLength long
MaxQueries == 3        \* the longest cumulative_distances array
MaxDistance == 8       \* the largest queried distance
MaxCoords == 2         \* the most weather coordinates
MaxOffset == 1         \* a time-zone offset is 0..MaxOffset
MaxForecastQueries == 2 \* the longest (indices, unix_timestamps) query
MaxTime == 7           \* the largest queried local time

----------------------------------------------------------------------------
(* numpy helpers *)

Abs(x) == IF x < 0 THEN -x ELSE x

Min(a, b) == IF a < b THEN a ELSE b

Max(a, b) == IF a > b THEN a ELSE b

Last(s) == s[Len(s)]

\* All sequences over S of a length in lo..hi.
SeqsOf(S, lo, hi) == UNION {[1..n -> S] : n \in lo..hi}

NonDecreasing(s) == \A i \in 1..Len(s) - 1 : s[i] <= s[i + 1]

\* A running total that leaves the current entry out.
RECURSIVE cumsum_exclusive(_)
cumsum_exclusive(s) ==
    IF s = <<>> THEN <<>>
    ELSE LET before == cumsum_exclusive(SubSeq(s, 1, Len(s) - 1))
         IN  Append(before, IF before = <<>> THEN 0 ELSE Last(before) + s[Len(s) - 1])

\* np.cumsum
RECURSIVE cumsum(_)
cumsum(s) ==
    IF Len(s) = 0 THEN <<>>
    ELSE LET p == cumsum(SubSeq(s, 1, Len(s) - 1))
         IN  Append(p, (IF Len(p) = 0 THEN 0 ELSE Last(p)) + Last(s))

\* np.diff
diff(s) == [i \in 1..Len(s) - 1 |-> s[i + 1] - s[i]]

----------------------------------------------------------------------------
(* GIS.calculate_closest_gis_indices and                                   *)
(* WeatherForecasts.calculate_closest_weather_indices                      *)

\* cumulative_path_distances[::2] *= -1 : the entries at the even 0-based
\* positions (the odd positions of a sequence) change sign.
negate_even(s) == [i \in 1..Len(s) |-> IF (i - 1) % 2 = 0 THEN -s[i] ELSE s[i]]

\* average_distances = np.abs(np.diff(cumulative_path_distances) / 2), doubled:
\* entry i is cum[i] + cum[i+1], twice the midpoint of the two ends.
average_distances_x2(distances) ==
    LET d == diff(negate_even(cumsum(distances)))
    IN  [i \in 1..Len(d) |-> Abs(d[i])]

\* One pass of the loop body of calculate_closest_gis_indices: the cursor after
\* the query `distance`.
GisWrapStep(current_coordinate_index, distance, avg2) ==
    IF 2 * distance > avg2[current_coordinate_index + 1]
    THEN IF current_coordinate_index + 1 > Len(avg2) - 1
         THEN 0
         ELSE current_coordinate_index + 1
    ELSE current_coordinate_index

GisStep(current_coordinate_index, distance, avg2) ==
    IF 2 * distance > avg2[current_coordinate_index + 1]
    THEN IF current_coordinate_index > Len(avg2) - 1
         THEN Len(avg2) - 1
         ELSE IF current_coordinate_index + 1 > Len(avg2) - 1
              THEN Len(avg2) - 1
              ELSE current_coordinate_index + 1
    ELSE current_coordinate_index

RECURSIVE gis_loop(_, _, _)
gis_loop(queries, current_coordinate_index, avg2) ==
    IF queries = <<>> THEN <<>>
    ELSE LET next == GisStep(current_coordinate_index, Head(queries), avg2)
         IN  <<next>> \o gis_loop(Tail(queries), next, avg2)

calculate_closest_gis_indices(distances, queries) ==
    gis_loop(queries, 0, average_distances_x2(distances))

\* One pass of the loop body of calculate_closest_weather_indices.
WeatherStepGe(current_coordinate_index, distance, avg2) ==
    LET c == IF current_coordinate_index > Len(avg2) - 1
             THEN Len(avg2) - 1 ELSE current_coordinate_index
    IN  IF 2 * distance >= avg2[c + 1]
        THEN IF c + 1 > Len(avg2) - 1 THEN Len(avg2) - 1 ELSE c + 1
        ELSE c

WeatherStep(current_coordinate_index, distance, avg2) ==
    LET c == IF current_coordinate_index > Len(avg2) - 1
             THEN Len(avg2) - 1 ELSE current_coordinate_index
    IN  IF 2 * distance > avg2[c + 1]
        THEN IF c + 1 > Len(avg2) - 1 THEN Len(avg2) - 1 ELSE c + 1
        ELSE c

RECURSIVE weather_loop(_, _, _)
weather_loop(queries, current_coordinate_index, avg2) ==
    IF queries = <<>> THEN <<>>
    ELSE LET next == WeatherStep(current_coordinate_index, Head(queries), avg2)
         IN  <<next>> \o weather_loop(Tail(queries), next, avg2)

calculate_closest_weather_indices(distances, queries) ==
    weather_loop(queries, 0, average_distances_x2(distances))

----------------------------------------------------------------------------
(* The index search as a state machine: a route and a query array are      *)
(* given, and the two searches are called on them.                         *)

\* A route of N >= 3 coordinates has N - 1 >= 2 segments (with fewer, the
\* array of midpoints is empty and the first query raises IndexError).
PathDistanceArrays == SeqsOf(1..MaxSegmentLength, 2, MaxSegments)

QueryArrays == {q \in SeqsOf(0..MaxDistance, 1, MaxQueries) : NonDecreasing(q)}

\* The parts of the state an operation under study does not use.
IdleIdx ==
    /\ path_distances = <<>>
    /\ cumulative_distances = <<>>
    /\ gis_indices = <<>>
    /\ weather_indices = <<>>

IdleForecast ==
    /\ weather_forecast = <<>>
    /\ indices = <<>>
    /\ unix_timestamps = <<>>
    /\ forecast_rows = <<>>

IdleGhi ==
    /\ cloud_cover = <<>>
    /\ ghi = <<>>
    /\ ghi_x2000 = <<>>

IdleRun ==
    /\ settings = <<>>
    /\ environment = <<>>
    /\ speed_kmh = <<>>
    /\ route_length = 0
    /\ results = <<>>
    /\ locals = <<>>
    /\ time_zones = <<>>
    /\ local_times = 0
    /\ basic_lvs = <<>>
    /\ runs = <<>>
    /\ pc = "idle"
    /\ arrays_to_plot = <<>>

IdleMotor ==
    /\ motor_args = <<>>
    /\ energy_in = <<>>
    /\ basic_motor = <<>>

IdleWeather ==
    /\ weather_args = <<>>
    /\ weather_files = <<>>
    /\ weather = <<>>

IdleGis ==
    /\ gis_args = <<>>
    /\ provider = <<>>
    /\ route_files = <<>>
    /\ gis = <<>>

IdleGrid ==
    /\ grid_args = <<>>
    /\ tick_grid = <<>>

IdlePosition ==
    /\ position_route = <<>>
    /\ gis_position = <<>>
    /\ position_calls = <<>>

IdleTickWeather ==
    /\ tick_weather_args = <<>>
    /\ tick_weather = <<>>

IdleInitTime ==
    /\ init_time_args = <<>>
    /\ init_time = <<>>

IdleRest ==
    /\ IdleGrid
    /\ IdlePosition
    /\ IdleTickWeather
    /\ IdleInitTime

InitIdx ==
    /\ done = {}
    /\ path_distances \in PathDistanceArrays
    /\ cumulative_distances \in QueryArrays
    /\ gis_indices = <<>>
    /\ weather_indices = <<>>
    /\ IdleForecast
    /\ IdleGhi
    /\ IdleRun
    /\ IdleMotor
    /\ IdleWeather
    /\ IdleGis
    /\ IdleRest

CallClosestGisIndices ==
    /\ "gis" \notin done
    /\ gis_indices' = calculate_closest_gis_indices(path_distances, cumulative_distances)
    /\ done' = done \cup {"gis"}
    /\ UNCHANGED <<path_distances, cumulative_distances, weather_indices>>
    /\ UNCHANGED <<fcVars, ghiVars, runVars>>
    /\ UNCHANGED <<motorVars, weatherVars, gisVars, restVars>>

CallClosestWeatherIndices ==
    /\ "weather" \notin done
    /\ weather_indices' =
           calculate_closest_weather_indices(path_distances, cumulative_distances)
    /\ done' = done \cup {"weather"}
    /\ UNCHANGED <<path_distances, cumulative_distances, gis_indices>>
    /\ UNCHANGED <<fcVars, ghiVars, runVars>>
    /\ UNCHANGED <<motorVars, weatherVars, gisVars, restVars>>

NextIdx == CallClosestGisIndices \/ CallClosestWeatherIndices

SpecIdx == InitIdx /\ [][NextIdx]_vars

\* Number of coordinates of the route, and total length.
N == Len(path_distances) + 1

route_total == Last(cumsum(path_distances))

----------------------------------------------------------------------------
\* C1: for a route of N >= 3 coordinates and a non-decreasing query array, the
\* indices calculate_closest_gis_indices returns are non-decreasing and each
\* lies in 0..N-2.
C1_MonotoneBounded ==
    "gis" \in done =>
        /\ Len(gis_indices) = Len(cumulative_distances)
        /\ NonDecreasing(gis_indices)
        /\ \A k \in 1..Len(gis_indices) : gis_indices[k] \in 0..N - 2

\* The cursor has moved and has been stopped at the end of the array.
C1_Witness ==
    /\ "gis" \in done
    /\ Len(gis_indices) >= 3
    /\ gis_indices[1] = 0
    /\ gis_indices[2] = 1
    /\ gis_indices[3] = 1
    /\ 2 * cumulative_distances[3] > Last(average_distances_x2(path_distances))


\* The brute-force search of C2 over all the midpoints of the route: the number
\* of midpoints that lie below the distance, limited to the last index.  It is
\* the index of the cumulative end nearest to the distance (the lower one on a
\* tie), in the numbering of the cursor.
nearest_index(distances, distance) ==
    LET avg2 == average_distances_x2(distances)
    IN  Min(Len(avg2) - 1,
            Cardinality({j \in 1..Len(avg2) : avg2[j] < 2 * distance}))

\* C2: for every non-decreasing query array, each returned index is the one the
\* brute-force nearest search returns, whatever the step between two queries.
C2_MatchesBruteForce ==
    "gis" \in done =>
        \A k \in 1..Len(gis_indices) :
            gis_indices[k] = nearest_index(path_distances, cumulative_distances[k])

\* C3: a query beyond the total route length gets the last index, the one the
\* cursor is stopped at.
C3_SaturatesBeyondRoute ==
    "gis" \in done =>
        \A k \in 1..Len(gis_indices) :
            cumulative_distances[k] > route_total =>
                gis_indices[k] = Len(average_distances_x2(path_distances)) - 1

\* C5: on the same segment distances (two segments or more) and the same query
\* array, the weather search and the route search return the same indices.
C5_SameIndices ==
    {"gis", "weather"} \subseteq done => weather_indices = gis_indices

\* Both searches have run on a query array that moves the cursor, leaves it
\* where it is on a query equal to a midpoint, and stops it at the end.
C5_Witness ==
    /\ {"gis", "weather"} \subseteq done
    /\ Len(gis_indices) >= 3
    /\ gis_indices[1] = 0
    /\ 2 * cumulative_distances[1] = average_distances_x2(path_distances)[1]
    /\ gis_indices[2] = 1
    /\ gis_indices[3] = 1
    /\ Len(average_distances_x2(path_distances)) = 2
    /\ cumulative_distances[3] > route_total

----------------------------------------------------------------------------
(* WeatherForecasts.get_weather_forecast_in_time                           *)

\* A forecast row.  Of the nine fields the model keeps the coordinate (fields
\* 0 and 1), dt (2), timezone_offset (3) and dt + timezone_offset (4).
forecast_row(coord, dt, timezone_offset) ==
    [coord |-> coord, dt |-> dt, timezone_offset |-> timezone_offset,
     dt_local |-> dt + timezone_offset]

\* np.argmin: the first (0-based) position of the least entry.
argmin(s) ==
    CHOOSE i \in 0..Len(s) - 1 :
        /\ \A j \in 0..Len(s) - 1 : s[i + 1] <= s[j + 1]
        /\ \A j \in 0..i - 1 : s[j + 1] > s[i + 1]

get_weather_forecast_in_time(forecast, idx, timestamps) ==
    LET full_weather_forecast_at_coords ==
            [k \in 1..Len(idx) |-> forecast[idx[k] + 1]]
        dt_local_array ==
            [j \in 1..Len(full_weather_forecast_at_coords[1]) |->
                full_weather_forecast_at_coords[1][j].dt_local]
        closest_time_stamp_indices ==
            [k \in 1..Len(timestamps) |->
                argmin([j \in 1..Len(dt_local_array) |->
                           Abs(timestamps[k] - dt_local_array[j])])]
    IN  [k \in 1..Len(idx) |->
            full_weather_forecast_at_coords[k][closest_time_stamp_indices[k] + 1]]

\* The forecast horizon of every coordinate: HorizonLength entries, the
\* provider's dt every ForecastStep apart, shifted by the coordinate's own
\* time-zone offset (WeatherForecasts.get_coord_weather_forecast).
HorizonLength == 3

ForecastStep == 3

coord_weather_forecast(coord, timezone_offset) ==
    [j \in 1..HorizonLength |->
        forecast_row(coord, (j - 1) * ForecastStep, timezone_offset)]

WeatherForecastArrays ==
    {[c \in 1..Len(offsets) |-> coord_weather_forecast(c - 1, offsets[c])] :
        offsets \in SeqsOf(0..MaxOffset, 1, MaxCoords)}

InitForecast ==
    /\ done = {}
    /\ weather_forecast \in WeatherForecastArrays
    /\ \E n \in 1..MaxForecastQueries :
        /\ indices \in [1..n -> 0..Len(weather_forecast) - 1]
        /\ unix_timestamps \in [1..n -> 0..MaxTime]
    /\ forecast_rows = <<>>
    /\ IdleIdx
    /\ IdleGhi
    /\ IdleRun
    /\ IdleMotor
    /\ IdleWeather
    /\ IdleGis
    /\ IdleRest

CallWeatherForecastInTime ==
    /\ "forecast" \notin done
    /\ forecast_rows' =
           get_weather_forecast_in_time(weather_forecast, indices, unix_timestamps)
    /\ done' = done \cup {"forecast"}
    /\ UNCHANGED <<weather_forecast, indices, unix_timestamps>>
    /\ UNCHANGED <<idxVars, ghiVars, runVars>>
    /\ UNCHANGED <<motorVars, weatherVars, gisVars, restVars>>

NextForecast == CallWeatherForecastInTime

SpecForecast == InitForecast /\ [][NextForecast]_vars

\* C4: every returned row is a row of the queried coordinate's own horizon, and
\* no row of that horizon is nearer in local time to the queried timestamp.
C4_NearestOwnEntry ==
    "forecast" \in done =>
        \A k \in 1..Len(indices) :
            /\ forecast_rows[k].coord = indices[k]
            /\ \A j \in 1..HorizonLength :
                   Abs(forecast_rows[k].dt_local - unix_timestamps[k])
                       <= Abs(weather_forecast[indices[k] + 1][j].dt_local
                              - unix_timestamps[k])

----------------------------------------------------------------------------
(* cloud_cover_to_ghi_linear.  The function is called by the tests of the  *)
(* repository and its body is in none of the source files at hand; it is   *)
(* modelled from the specification: ghi * (1 - 0.65 * cloud_cover / 100).  *)
(* The result is held times 2000, which makes it an integer:               *)
(* 2000 * ghi * (1 - 0.65 * c / 100) = ghi * (2000 - 13 * c).              *)

cloud_cover_to_ghi_swapped(covers, irradiances) ==
    [i \in 1..Len(irradiances) |-> irradiances[i] * (2000 - 7 * covers[i])]

cloud_cover_to_ghi_linear(covers, irradiances) ==
    [i \in 1..Len(irradiances) |-> irradiances[i] * (2000 - 13 * covers[i])]

\* The arrays of tests/test_weather_calculations.py and their neighbours.
CloudCoverValues == {0, 30, 80, 100}

GhiValues == {0, 100, 300, 500}

GhiArrayLength == 3

InitGhi ==
    /\ done = {}
    /\ cloud_cover \in [1..GhiArrayLength -> CloudCoverValues]
    /\ ghi \in [1..GhiArrayLength -> GhiValues]
    /\ ghi_x2000 = <<>>
    /\ IdleIdx
    /\ IdleForecast
    /\ IdleRun
    /\ IdleMotor
    /\ IdleWeather
    /\ IdleGis
    /\ IdleRest

CallCloudCoverToGhiLinear ==
    /\ "ghi" \notin done
    /\ ghi_x2000' = cloud_cover_to_ghi_linear(cloud_cover, ghi)
    /\ done' = done \cup {"ghi"}
    /\ UNCHANGED <<cloud_cover, ghi>>
    /\ UNCHANGED <<idxVars, fcVars, runVars>>
    /\ UNCHANGED <<motorVars, weatherVars, gisVars, restVars>>

NextGhi == CallCloudCoverToGhiLinear

SpecGhi == InitGhi /\ [][NextGhi]_vars

\* C6: the result is the clear-sky value at 0 % cover, 35 % of it at 100 %
\* cover and on the straight line between the two in between; the two arrays
\* of the tests give [175, 105, 35] and [240, 300, 80.5].
C6_CloudAttenuation ==
    "ghi" \in done =>
        /\ Len(ghi_x2000) = Len(ghi)
        /\ \A i \in 1..Len(ghi) :
            /\ cloud_cover[i] = 0 => ghi_x2000[i] = 2000 * ghi[i]
            /\ cloud_cover[i] = 100 => 100 * ghi_x2000[i] = 35 * 2000 * ghi[i]
            /\ 100 * ghi_x2000[i] =
                   (100 - cloud_cover[i]) * 2000 * ghi[i]
                   + cloud_cover[i] * 700 * ghi[i]
        /\ (ghi = <<500, 300, 100>> /\ cloud_cover = <<100, 100, 100>>)
               => ghi_x2000 = <<2000 * 175, 2000 * 105, 2000 * 35>>
        /\ (ghi = <<500, 300, 100>> /\ cloud_cover = <<80, 0, 30>>)
               => ghi_x2000 = <<2000 * 240, 2000 * 300, 161000>>

\* The second array of the tests has been converted.
C6_Witness ==
    /\ "ghi" \in done
    /\ ghi = <<500, 300, 100>>
    /\ cloud_cover = <<80, 0, 30>>
    /\ ghi_x2000 = <<480000, 600000, 161000>>

----------------------------------------------------------------------------
(* Simulation.__run_simulation_calculations                                *)
(*                                                                         *)
(* Time.  The code builds the curfew mask with one entry per second, so    *)
(* the mask and the tick grid agree only for tick = 1, the time step of    *)
(* the model.  The model's hour has SecondsPerHour seconds where the       *)
(* program's has 3600: simulation_duration is a whole number of hours.     *)
(* Lengths are in units of 1/3600 km, so that speed_kmh * seconds is a     *)
(* length and the conversions / 3.6, / 3600 and / 1000 of the code are     *)
(* exact.  Energies are in units of 1/SocFull of the battery's capacity.   *)
(* The branch verbose = False is modelled.                                 *)

SecondsPerHour == 2    \* bound: seconds in the model's hour
MaxHours == 2          \* bound: the longest simulation_duration, in hours

tick == 1

CurfewMorningEnd == 8

CurfewEveningStart == 18

\* np.arange(first, limit) with the step 1
arange(first, limit) == [i \in 1..limit - first |-> first + i - 1]

\* np.repeat(s, k)
repeat(s, k) == [i \in 1..Len(s) * k |-> s[((i - 1) \div k) + 1]]

\* np.logical_and(a, b), as the 0 / 1 it is when multiplied
logical_and(a, b) == [i \in 1..Len(a) |-> IF a[i] # 0 /\ b[i] # 0 THEN 1 ELSE 0]

\* a * b, element by element
times(a, b) == [i \in 1..Len(a) |-> a[i] * b[i]]

\* a - b, element by element
minus(a, b) == [i \in 1..Len(a) |-> a[i] - b[i]]

\* np.full_like(a, fill_value)
full_like(a, fill_value) == [i \in 1..Len(a) |-> fill_value]

RECURSIVE sum(_)
sum(s) == IF s = <<>> THEN 0 ELSE Head(s) + sum(Tail(s))

\* self.timestamps = np.arange(0, simulation_duration + tick, tick)
timestamps(simulation_duration) ==
    [i \in 1..(simulation_duration \div tick) + 1 |-> (i - 1) * tick]

\* simulation_hours_by_second: the hour of every second of the run, and the
\* hour the run ends in.
simulation_hours_by_second(start_hour, simulation_duration) ==
    LET simulation_hours ==
            arange(start_hour, start_hour + simulation_duration \div SecondsPerHour)
    IN  Append(repeat(simulation_hours, SecondsPerHour),
               start_hour + simulation_duration \div SecondsPerHour)

\* not_charge: 1 where the car may drive, 0 in the hours it has to charge.
not_charge_late(hours) ==
    [i \in 1..Len(hours) |->
        IF (hours[i] % 24) <= CurfewMorningEnd \/ (hours[i] % 24) > CurfewEveningStart
        THEN 0 ELSE 1]

not_charge_of(hours) ==
    [i \in 1..Len(hours) |->
        IF (hours[i] % 24) <= CurfewMorningEnd \/ (hours[i] % 24) >= CurfewEveningStart
        THEN 0 ELSE 1]

\* BasicMotor.calculate_energy_in, its product: motor_output_energies =
\* required_angular_speed_rads_array * (friction + drag + grade force) * tick.
\* In the run the sum of the forces, which the gradient and the wind decide,
\* is given per tick, and the constant factors between the speed in km/h and
\* the energy the battery pays (3.6, the tire radius, e_m) are in its unit.
motor_output_energies(required_angular_speed_rads_array, sum_of_forces, tick_length) ==
    [i \in 1..Len(required_angular_speed_rads_array) |->
        required_angular_speed_rads_array[i] * sum_of_forces[i] * tick_length]

\* BasicLVS.update and get_consumed_energy (from the specification, 4.5): the
\* low-voltage systems draw the constant power_loss * tick per step.
BasicLVS(power_loss, tick_length) ==
    [power_loss |-> power_loss, consumed_energy |-> power_loss * tick_length]

BasicLVS_update(lvs, tick_length) ==
    [lvs EXCEPT !.consumed_energy = lvs.power_loss * tick_length]

\* GIS.get_time_zones: the time zone of the route at every index.
get_time_zones(path_time_zones, gis_idx) ==
    [i \in 1..Len(gis_idx) |-> path_time_zones[gis_idx[i] + 1]]

\* helpers.adjust_timestamps_to_local_times (from the specification, 4.7 step
\* 3): the time zone offset applied to a zero-point at the start of the run.
adjust_timestamps_to_local_times(stamps, time_of_initialization, zones) ==
    [i \in 1..Len(stamps) |-> stamps[i] + time_of_initialization + zones[i]]

\* BasicBattery.update_array (from the specification, 4.6): the state of charge
\* is the initial charge plus the cumulative net energy, clamped to [0, 1].
SocFull == 10000

update_array(initial_battery_charge, cumulative_delta_energy) ==
    [i \in 1..Len(cumulative_delta_energy) |->
        Max(0, Min(SocFull, initial_battery_charge + cumulative_delta_energy[i]))]

\* state_of_charge[np.abs(state_of_charge) < 1e-03] = 0
SnapThreshold == 10

snap_tenth(state_of_charge) ==
    [i \in 1..Len(state_of_charge) |->
        IF 10 * Abs(state_of_charge[i]) < SnapThreshold THEN 0 ELSE state_of_charge[i]]

snap_to_zero(state_of_charge) ==
    [i \in 1..Len(state_of_charge) |->
        IF Abs(state_of_charge[i]) < SnapThreshold THEN 0 ELSE state_of_charge[i]]

\* speed_kmh = np.logical_and(not_charge, state_of_charge) * speed_kmh
RECURSIVE gate_absorbing(_, _, _)
gate_absorbing(not_charge, state_of_charge, speed) ==
    IF speed = <<>> THEN <<>>
    ELSE LET n == Len(speed)
             before == gate_absorbing(SubSeq(not_charge, 1, n - 1),
                                      SubSeq(state_of_charge, 1, n - 1),
                                      SubSeq(speed, 1, n - 1))
         IN  Append(before,
                    IF /\ not_charge[n] # 0
                       /\ \A j \in 1..n : state_of_charge[j] # 0
                    THEN speed[n] ELSE 0)

\* A gate that lets the car drive only on a battery more than half full.
gate_speed_above_half(not_charge, state_of_charge, speed) ==
    [i \in 1..Len(speed) |->
        IF not_charge[i] # 0 /\ 2 * state_of_charge[i] > SocFull THEN speed[i] ELSE 0]

gate_speed(not_charge, state_of_charge, speed) ==
    times(logical_and(not_charge, state_of_charge), speed)

\* distances.clip(lo, hi)
clip_low_only(s, lo, hi) == [i \in 1..Len(s) |-> Max(lo, s[i])]

clip(s, lo, hi) == [i \in 1..Len(s) |-> Max(lo, Min(hi, s[i]))]

\* np.where(distances == limit)[0][-1]: the last position, not the first.
last_index_of(s, value, otherwise) ==
    IF \E i \in 1..Len(s) : s[i] = value
    THEN (CHOOSE i \in 1..Len(s) :
             s[i] = value /\ \A j \in i + 1..Len(s) : s[j] # value) - 1
    ELSE otherwise

\* np.where(distances == limit)[0][0], and len(time_in_motion) on IndexError;
\* a 0-based index.
first_index_of(s, value, otherwise) ==
    IF \E i \in 1..Len(s) : s[i] = value
    THEN (CHOOSE i \in 1..Len(s) :
             s[i] = value /\ \A j \in 1..i - 1 : s[j] # value) - 1
    ELSE otherwise

\* The run: every local array of __run_simulation_calculations, by its name.
run_simulation_calculations(conf, env, lvs, distances_of_path, speed_in) ==
    LET stamps == timestamps(conf.simulation_duration)
        tick_array == <<0>> \o diff(stamps)
        not_charge ==
            not_charge_of(simulation_hours_by_second(conf.start_hour,
                                                     conf.simulation_duration))
        speed_1 == times(logical_and(speed_in, not_charge), speed_in)
        \* expected distance estimate and the route index of every tick
        cumulative_distances_1 == cumsum(times(tick_array, speed_1))
        closest_gis_indices ==
            calculate_closest_gis_indices(distances_of_path, cumulative_distances_1)
        max_route_distance == Last(cumsum(distances_of_path))
        \* time zones and local times
        zones ==
            get_time_zones([j \in 1..Len(distances_of_path) + 1 |-> env.time_zone],
                           closest_gis_indices)
        local_times_1 ==
            adjust_timestamps_to_local_times(stamps, conf.time_of_initialization, zones)
        \* energies
        lvs_1 == BasicLVS_update(lvs, tick)
        lvs_consumed_energy == lvs_1.consumed_energy
        motor_consumed_energy_1 ==
            motor_output_energies(speed_1, full_like(speed_1, env.sum_of_forces), tick)
        array_produced_energy == full_like(speed_1, env.array_produced_energy)
        motor_consumed_energy ==
            times(logical_and(motor_consumed_energy_1, not_charge),
                  motor_consumed_energy_1)
        consumed_energy ==
            [i \in 1..Len(speed_1) |-> motor_consumed_energy[i] + lvs_consumed_energy]
        delta_energy == minus(array_produced_energy, consumed_energy)
        tick_array_2 == [i \in 1..Len(stamps) |-> IF i = 1 THEN 0 ELSE tick]
        cumulative_delta_energy == cumsum(delta_energy)
        battery_soc == update_array(conf.initial_battery_charge, cumulative_delta_energy)
        state_of_charge == snap_to_zero(battery_soc)
        \* the second gate, motion and distance
        speed_2 == gate_speed(not_charge, state_of_charge, speed_1)
        time_in_motion_1 ==
            [i \in 1..Len(speed_2) |-> logical_and(tick_array_2, speed_2)[i] * tick]
        final_soc == Last(state_of_charge) * 100
        distances == clip(cumsum(times(speed_2, time_in_motion_1)), 0, max_route_distance)
        max_dist_index ==
            first_index_of(distances, max_route_distance, Len(time_in_motion_1))
        time_in_motion ==
            [i \in 1..Len(time_in_motion_1) |->
                IF i - 1 < max_dist_index THEN time_in_motion_1[i] ELSE 0]
    IN  [results |->
            [speed_kmh |-> speed_2,
             distances |-> distances,
             state_of_charge |-> state_of_charge,
             delta_energy |-> delta_energy,
             distance_travelled |-> Last(distances),
             time_taken |-> sum(time_in_motion),
             final_soc |-> final_soc],
         route_length |-> max_route_distance,
         time_zones |-> zones,
         local_times |-> local_times_1,
         basic_lvs |-> lvs_1,
         locals |->
            [not_charge |-> not_charge,
             cumulative_distances |-> cumulative_distances_1,
             closest_gis_indices |-> closest_gis_indices,
             cumulative_delta_energy |-> cumulative_delta_energy,
             battery_soc |-> battery_soc,
             time_in_motion |-> time_in_motion]]

----------------------------------------------------------------------------
(* A run of the engine as a state machine: the settings, the route, what   *)
(* the models answer and a speed array are given, and                      *)
(* __run_simulation_calculations is called on them.                        *)

\* Start hours: before the morning limit, inside the driving window, before
\* the evening limit and before midnight.
StartHours == {8, 9, 17, 23}

\* A nearly empty and a nearly full battery, in 1/SocFull.
InitialCharges == {10, 9995}

LvsPowerLosses == {1}

ArrayEnergies == {0, 6}

SumsOfForces == {4}

\* The time zone of the route: one hour west of UTC.
TimeZoneOffsets == {0 - SecondsPerHour}

SpeedValues == {1, 2}

\* run_model and optimize put a 0 in front of the speeds (np.insert(speed_kmh,
\* 0, 0)); every later tick is at rest or at the speed of the run.
SpeedArrays(n) ==
    {[i \in 1..n |-> IF i = 1 THEN 0 ELSE v * on[i]] :
        v \in SpeedValues, on \in [2..n -> {0, 1}]}

RunRoutes == {<<1, 2>>, <<2, 2, 1>>}

\* helpers.hour_from_unix_timestamp (from the specification: the UTC hour of
\* the day of a timestamp)
hour_from_unix_timestamp(unix_timestamp) == (unix_timestamp \div SecondsPerHour) % 24

\* A zero-point on the day of the forecast itself.
time_of_initialization_same_day(start_hour, last_updated_time) ==
    last_updated_time
        + SecondsPerHour * (start_hour - hour_from_unix_timestamp(last_updated_time))

\* weather_hour = helpers.hour_from_unix_timestamp(self.weather.last_updated_time)
\* self.time_of_initialization =
\*     self.weather.last_updated_time + 3600 * (24 + self.start_hour - weather_hour)
time_of_initialization_of(start_hour, last_updated_time) ==
    last_updated_time
        + SecondsPerHour * (24 + start_hour - hour_from_unix_timestamp(last_updated_time))

\* The time the weather was fetched at: on the hour, inside an hour, and
\* after noon.
RunLastUpdatedTimes == {0, 1, 13 * SecondsPerHour}

\* Simulation.__init__: the fields of the settings file and the zero-point of
\* the local times, the start hour of the run on the day after the forecast's
\* first row.
Settings(args) ==
    [start_hour |-> args.start_hour,
     simulation_duration |-> args.simulation_duration,
     initial_battery_charge |-> args.initial_battery_charge,
     lvs_power_loss |-> args.lvs_power_loss,
     time_of_initialization |->
         time_of_initialization_of(args.start_hour, args.last_updated_time)]

InitRun ==
    /\ done = {}
    /\ \E s \in [start_hour : StartHours,
                  simulation_duration : {h * SecondsPerHour : h \in 1..MaxHours},
                  initial_battery_charge : InitialCharges,
                  lvs_power_loss : LvsPowerLosses,
                  last_updated_time : RunLastUpdatedTimes] :
           settings = Settings(s)
    /\ environment \in [array_produced_energy : ArrayEnergies,
                        sum_of_forces : SumsOfForces,
                        time_zone : TimeZoneOffsets]
    /\ speed_kmh \in SpeedArrays(Len(timestamps(settings.simulation_duration)))
    /\ path_distances \in RunRoutes
    /\ route_length = 0
    /\ results = <<>>
    /\ locals = <<>>
    /\ time_zones = <<>>
    /\ local_times = 0
    /\ basic_lvs = BasicLVS(settings.lvs_power_loss, tick)
    /\ runs = <<>>
    /\ pc = "idle"
    /\ arrays_to_plot = <<>>
    /\ cumulative_distances = <<>>
    /\ gis_indices = <<>>
    /\ weather_indices = <<>>
    /\ IdleForecast
    /\ IdleGhi
    /\ IdleMotor
    /\ IdleWeather
    /\ IdleGis
    /\ IdleRest

RunSimulationCalculations ==
    /\ "run" \notin done
    /\ LET run == run_simulation_calculations(settings, environment, basic_lvs,
                                              path_distances, speed_kmh)
       IN  /\ results' = run.results
           /\ route_length' = run.route_length
           /\ locals' = run.locals
           /\ time_zones' = run.time_zones
           /\ local_times' = run.local_times
           /\ basic_lvs' = run.basic_lvs
    /\ done' = done \cup {"run"}
    /\ UNCHANGED <<settings, environment, speed_kmh, runs, pc, arrays_to_plot>>
    /\ UNCHANGED <<idxVars, fcVars, ghiVars>>
    /\ UNCHANGED <<motorVars, weatherVars, gisVars, restVars>>

NextRun == RunSimulationCalculations

SpecRun == InitRun /\ [][NextRun]_vars

\* The ticks of the run, as positions of its arrays, and the hour of day of a
\* tick: start_hour plus the whole hours elapsed, modulo 24.
Ticks == 1..Len(speed_kmh)

hour_of_day(i) == (settings.start_hour + ((i - 1) * tick) \div SecondsPerHour) % 24

in_curfew(i) == hour_of_day(i) <= CurfewMorningEnd \/ hour_of_day(i) >= CurfewEveningStart

\* C7: every state of charge of the result is in [0, 1], and one of a magnitude
\* below 1e-3 is 0.
C7_SocBounds ==
    "run" \in done =>
        \A i \in Ticks :
            /\ 0 <= results.state_of_charge[i]
            /\ results.state_of_charge[i] <= SocFull
            /\ Abs(results.state_of_charge[i]) < SnapThreshold
                   => results.state_of_charge[i] = 0

\* A run whose deficit exceeds the initial charge at one tick, and whose
\* battery holds a charge below 1e-3 at another, which the result has as 0.
C7_Witness ==
    /\ "run" \in done
    /\ \E i \in Ticks :
           settings.initial_battery_charge + locals.cumulative_delta_energy[i] < 0
    /\ \E i \in Ticks :
           /\ locals.battery_soc[i] > 0
           /\ locals.battery_soc[i] < SnapThreshold
           /\ results.state_of_charge[i] = 0

\* A run whose surplus exceeds the remaining capacity.
C7_WitnessFull ==
    /\ "run" \in done
    /\ \E i \in Ticks :
           /\ settings.initial_battery_charge + locals.cumulative_delta_energy[i] > SocFull
           /\ results.state_of_charge[i] = SocFull

\* C8: the speed of the result is 0 at every tick whose hour of day is in the
\* non-driving window, whatever the input speed.
C8_CurfewGating ==
    "run" \in done =>
        \A i \in Ticks : in_curfew(i) => results.speed_kmh[i] = 0

\* A tick in the window with a nonzero input speed and a charged battery.
C8_Witness ==
    /\ "run" \in done
    /\ \E i \in Ticks :
           /\ in_curfew(i)
           /\ speed_kmh[i] # 0
           /\ results.state_of_charge[i] # 0
           /\ results.speed_kmh[i] = 0
    /\ \E i \in Ticks : ~in_curfew(i) /\ results.speed_kmh[i] # 0

\* C9: at every tick the speed of the result is the input speed if the tick is
\* outside the window and its state of charge is nonzero, and 0 otherwise.
C9_SpeedGate ==
    "run" \in done =>
        \A i \in Ticks :
            results.speed_kmh[i] =
                IF ~in_curfew(i) /\ results.state_of_charge[i] # 0
                THEN speed_kmh[i] ELSE 0

\* The car is stopped by an empty battery at one tick and moves at a later one.
C9_Witness ==
    /\ "run" \in done
    /\ \E i \in Ticks : \E j \in Ticks :
           /\ i < j
           /\ ~in_curfew(i)
           /\ speed_kmh[i] # 0
           /\ results.state_of_charge[i] = 0
           /\ results.speed_kmh[i] = 0
           /\ results.state_of_charge[j] # 0
           /\ results.speed_kmh[j] # 0

\* C10: the cumulative distances of the result never decrease and never exceed
\* the route length.
C10_DistanceMonotoneClamped ==
    "run" \in done =>
        /\ NonDecreasing(results.distances)
        /\ \A i \in Ticks : results.distances[i] <= route_length

\* The car has moved at two ticks or more and would have passed the end of the
\* route.
C10_Witness ==
    /\ "run" \in done
    /\ \E i \in Ticks : \E j \in Ticks :
           /\ i < j
           /\ 0 < results.distances[i]
           /\ results.distances[i] < results.distances[j]
    /\ sum(times(results.speed_kmh, [i \in Ticks |-> IF i = 1 THEN 0 ELSE tick]))
           > route_length
    /\ results.distance_travelled = route_length

\* C11: if the cumulative distance first equals the route length at tick k, the
\* time in motion of every tick after k is 0.
C11_ArrivalFreeze ==
    "run" \in done =>
        \A k \in Ticks :
            (/\ results.distances[k] = route_length
             /\ \A j \in 1..k - 1 : results.distances[j] # route_length)
            => \A i \in Ticks : i > k => locals.time_in_motion[i] = 0

\* The car arrives before the last tick and its gated speed is nonzero at a
\* later tick, whose time in motion is 0.
C11_Witness ==
    /\ "run" \in done
    /\ \E k \in Ticks : \E i \in Ticks :
           /\ results.distances[k] = route_length
           /\ \A j \in 1..k - 1 : results.distances[j] # route_length
           /\ k > 1
           /\ i > k
           /\ results.speed_kmh[i] # 0
           /\ locals.time_in_motion[i] = 0

\* The input speed is the same at every tick after the 0 the callers put in
\* front, every tick is outside the non-driving window and the state of charge
\* is nonzero at every tick.
constant_speed_run ==
    /\ "run" \in done
    /\ \A i \in Ticks \ {1} : speed_kmh[i] = Last(speed_kmh)
    /\ \A i \in Ticks : ~in_curfew(i)
    /\ \A i \in Ticks : results.state_of_charge[i] # 0

\* C12: in a run at a constant input speed v, inside the driving window and
\* with a nonzero state of charge at every tick, the cumulative distance of
\* every tick is min(route length, v * time elapsed), and the distance
\* travelled is min(route length, v * simulation duration).
C12_ConstantSpeedDistance ==
    constant_speed_run =>
        LET v == Last(speed_kmh)
            elapsed == timestamps(settings.simulation_duration)
        IN  /\ \A i \in Ticks :
                   results.distances[i] = Min(route_length, v * elapsed[i])
            /\ results.distance_travelled =
                   Min(route_length, v * settings.simulation_duration)

\* A constant-speed run that is short of the end of the route at one tick and
\* would be past it at a later one.
C12_Witness ==
    /\ constant_speed_run
    /\ \E i \in Ticks : \E j \in Ticks :
           /\ i < j
           /\ 0 < results.distances[i]
           /\ results.distances[i] < route_length
           /\ Last(speed_kmh) * timestamps(settings.simulation_duration)[j] > route_length
           /\ results.distances[j] = route_length

----------------------------------------------------------------------------
(* BasicMotor                                                              *)
(*                                                                         *)
(* Units.  Speeds are whole multiples of 18 km/h, which are whole m/s;     *)
(* wind speeds are in m/s; a gradient is in units of 1/50; forces are in   *)
(* units of 0.01 N, rounded down to a whole number of them; an angular     *)
(* speed is rounded down to whole rad/s.  The constants of the class are   *)
(* held as whole numbers: acceleration_g in 1/100, road_friction and       *)
(* tire_radius in 1/10000, air_density, vehicle_frontal_area and           *)
(* drag_coefficient in 1/1000.  An efficiency is the fraction num / den.   *)
(* Energies and powers are held times EfficiencyScale, so that a division  *)
(* by e_m and one by e_mc are exact.                                       *)

vehicle_mass == 250

acceleration_g == 981

road_friction == 55

tire_radius == 2032

air_density == 1225

vehicle_frontal_area == 952

drag_coefficient == 223

\* self.e_mc = 0.98 and self.e_m = 0.9
e_mc == [num |-> 49, den |-> 50]

e_m == [num |-> 9, den |-> 10]

EfficiencyScale == e_m.num * e_mc.num

\* q / e, for q a multiple of e.num
over(q, e) == (q \div e.num) * e.den

\* self.friction_force = vehicle_mass * acceleration_g * road_friction
friction_force == (vehicle_mass * acceleration_g * road_friction) \div 10000

\* required_speed_ms = required_speed_kmh / 3.6
required_speed_ms(required_speed) ==
    [i \in 1..Len(required_speed) |-> (required_speed[i] * 10) \div 36]

\* A motor that never turns slower than 1 rad/s.
required_angular_speed_idling(speed_ms) ==
    [i \in 1..Len(speed_ms) |-> Max(1, (speed_ms[i] * 10000) \div tire_radius)]

\* required_angular_speed_rads = required_speed_ms / self.tire_radius
required_angular_speed_rads(speed_ms) ==
    [i \in 1..Len(speed_ms) |-> (speed_ms[i] * 10000) \div tire_radius]

\* 0.5 * air_density * (required_speed_ms + wind_speeds) ** 2
\*     * drag_coefficient * vehicle_frontal_area
drag_forces(speed_ms, winds) ==
    [i \in 1..Len(winds) |->
        ((air_density * drag_coefficient * vehicle_frontal_area) \div 20000000)
            * (speed_ms[i] + winds[i]) * (speed_ms[i] + winds[i])]

\* vehicle_mass * acceleration_g * gradients
g_forces(slopes) ==
    [i \in 1..Len(slopes) |-> (vehicle_mass * acceleration_g * slopes[i]) \div 50]

\* friction_force + drag_forces + g_forces
forces_on_motor(speed_ms, slopes, winds) ==
    [i \in 1..Len(slopes) |->
        friction_force + drag_forces(speed_ms, winds)[i] + g_forces(slopes)[i]]

\* BasicMotor.calculate_energy_in: the energy the motor takes in at every tick.
calculate_energy_in(required_speed, slopes, winds, tick_length) ==
    LET speed_ms == required_speed_ms(required_speed)
        required_angular_speed_rads_array == required_angular_speed_rads(speed_ms)
        motor_output_energies_scaled ==
            [i \in 1..Len(slopes) |->
                motor_output_energies(required_angular_speed_rads_array,
                                      forces_on_motor(speed_ms, slopes, winds),
                                      tick_length)[i] * EfficiencyScale]
        motor_input_energies ==
            [i \in 1..Len(slopes) |-> over(motor_output_energies_scaled[i], e_m)]
    IN  motor_input_energies

\* BasicMotor.calculate_power_in: sets self.input_power.
calculate_power_in(motor, required_speed, slopes, winds) ==
    LET speed_ms == required_speed_ms(required_speed)
        angular == required_angular_speed_rads(speed_ms)
        motor_output_power ==
            [i \in 1..Len(slopes) |->
                angular[i] * forces_on_motor(speed_ms, slopes, winds)[i] * EfficiencyScale]
        motor_input_power ==
            [i \in 1..Len(slopes) |-> over(motor_output_power[i], e_m)]
    IN  [motor EXCEPT !.input_power =
            [i \in 1..Len(slopes) |-> over(motor_input_power[i], e_mc)]]

\* BasicMotor.update: self.consumed_energy = self.input_power * tick, for the
\* input power of a call of calculate_power_in.
BasicMotor_update(motor, tick_length) ==
    [motor EXCEPT !.consumed_energy =
        [i \in 1..Len(motor.input_power) |-> motor.input_power[i] * tick_length]]

\* The arguments: one speed, gradient and wind speed per tick.
MotorArrayLength == 2

MotorSpeeds == {0, 18, 36}

Gradients == {-1, 0, 1}

WindSpeeds == {-5, 5}

TickLengths == {1, 2}

InitMotor ==
    /\ done = {}
    /\ \E n \in 1..MotorArrayLength :
           motor_args \in [required_speed_kmh : [1..n -> MotorSpeeds],
                           gradients : [1..n -> Gradients],
                           wind_speeds : [1..n -> WindSpeeds],
                           tick : TickLengths]
    /\ energy_in = <<>>
    /\ basic_motor = [input_power |-> 0, consumed_energy |-> 0]
    /\ IdleIdx
    /\ IdleForecast
    /\ IdleGhi
    /\ IdleRun
    /\ IdleWeather
    /\ IdleGis
    /\ IdleRest

CallCalculateEnergyIn ==
    /\ "energy" \notin done
    /\ energy_in' = calculate_energy_in(motor_args.required_speed_kmh, motor_args.gradients,
                                        motor_args.wind_speeds, motor_args.tick)
    /\ done' = done \cup {"energy"}
    /\ UNCHANGED <<motor_args, basic_motor>>
    /\ UNCHANGED <<idxVars, fcVars, ghiVars, runVars, weatherVars, gisVars, restVars>>

CallCalculatePowerIn ==
    /\ "power" \notin done
    /\ basic_motor' = calculate_power_in(basic_motor, motor_args.required_speed_kmh,
                                         motor_args.gradients, motor_args.wind_speeds)
    /\ done' = done \cup {"power"}
    /\ UNCHANGED <<motor_args, energy_in>>
    /\ UNCHANGED <<idxVars, fcVars, ghiVars, runVars, weatherVars, gisVars, restVars>>

CallMotorUpdate ==
    /\ "power" \in done
    /\ "update" \notin done
    /\ basic_motor' = BasicMotor_update(basic_motor, motor_args.tick)
    /\ done' = done \cup {"update"}
    /\ UNCHANGED <<motor_args, energy_in>>
    /\ UNCHANGED <<idxVars, fcVars, ghiVars, runVars, weatherVars, gisVars, restVars>>

NextMotor == CallCalculateEnergyIn \/ CallCalculatePowerIn \/ CallMotorUpdate

SpecMotor == InitMotor /\ [][NextMotor]_vars

MotorTicks == 1..Len(motor_args.gradients)

\* C13: calculate_energy_in returns 0 at every tick whose speed is 0, whatever
\* the gradient, the wind speed and the tick length.
C13_ZeroSpeedEnergy ==
    "energy" \in done =>
        \A i \in MotorTicks :
            motor_args.required_speed_kmh[i] = 0 => energy_in[i] = 0

\* A tick at rest on a slope in the wind, where the forces are not 0, beside a
\* tick in motion that takes energy.
C13_Witness ==
    /\ "energy" \in done
    /\ \E i \in MotorTicks : \E j \in MotorTicks :
           /\ motor_args.required_speed_kmh[i] = 0
           /\ forces_on_motor(required_speed_ms(motor_args.required_speed_kmh),
                              motor_args.gradients, motor_args.wind_speeds)[i] # 0
           /\ energy_in[i] = 0
           /\ motor_args.required_speed_kmh[j] # 0
           /\ energy_in[j] # 0

\* C14: calculate_energy_in returns the shaft energy divided by the motor
\* efficiency and by the motor-controller efficiency, which is the tick length
\* times the input power calculate_power_in computes for the same arguments.
C14_EnergyIsTickTimesPower ==
    {"energy", "power"} \subseteq done =>
        \A i \in MotorTicks :
            energy_in[i] = motor_args.tick * basic_motor.input_power[i]

----------------------------------------------------------------------------
(* The engine over several runs: __run_simulation_calculations is called   *)
(* from run_model or from optimize, again and again on the same engine,    *)
(* and the caller goes on to parse and plot the result.                    *)

MaxRuns == 3           \* bound: the most runs on one engine

PlotPoints == 2        \* bound: the number of timestamps per plotted point (5000 in the program)

\* array[::step]
slice(array, step) ==
    [i \in 1..((Len(array) + step - 1) \div step) |-> array[(i - 1) * step + 1]]

\* Simulation.__plot_graph, for a list of two or more arrays: every entry of
\* the list it is given is replaced by its compressed slice; a step of 0
\* (fewer timestamps than PlotPoints) raises ValueError at the first entry.
plot_graph(stamps, list) ==
    LET compress_constant == Len(stamps) \div PlotPoints
    IN  IF compress_constant = 0
        THEN [raised |-> "ValueError", list |-> list]
        ELSE [raised |-> "none",
              list |-> [index \in 1..Len(list) |-> slice(list[index], compress_constant)]]

\* SimulationResult.arrays, of which the model holds the first four
result_arrays(result) ==
    <<result.speed_kmh, result.distances, result.state_of_charge, result.delta_energy>>

\* The result whose list of arrays has been assigned to, entry by entry.
with_arrays(result, list) ==
    [result EXCEPT !.speed_kmh = list[1], !.distances = list[2],
                   !.state_of_charge = list[3], !.delta_energy = list[4]]

\* The speeds of a run of the engine: a 0 in front, then one speed.
EngineSpeedArrays(n) ==
    {[i \in 1..n |-> IF i = 1 THEN 0 ELSE v] : v \in SpeedValues}

EngineStartHours == {9}

InitEngine ==
    /\ done = {}
    /\ \E s \in [start_hour : EngineStartHours,
                  simulation_duration : {h * SecondsPerHour : h \in 1..MaxHours},
                  initial_battery_charge : InitialCharges,
                  lvs_power_loss : LvsPowerLosses,
                  last_updated_time : RunLastUpdatedTimes] :
           settings = Settings(s)
    /\ environment \in [array_produced_energy : ArrayEnergies,
                        sum_of_forces : SumsOfForces,
                        time_zone : TimeZoneOffsets]
    /\ speed_kmh = <<>>
    /\ path_distances \in RunRoutes
    /\ route_length = 0
    /\ results = <<>>
    /\ locals = <<>>
    /\ time_zones = <<>>
    /\ local_times = 0
    /\ basic_lvs = BasicLVS(settings.lvs_power_loss, tick)
    /\ runs = <<>>
    /\ pc = "idle"
    /\ arrays_to_plot = <<>>
    /\ cumulative_distances = <<>>
    /\ gis_indices = <<>>
    /\ weather_indices = <<>>
    /\ IdleForecast
    /\ IdleGhi
    /\ IdleMotor
    /\ IdleWeather
    /\ IdleGis
    /\ IdleRest

\* run_model or optimize calls __run_simulation_calculations.
CallRunSimulationCalculations(caller, speed) ==
    /\ pc = "idle"
    /\ Len(runs) < MaxRuns
    /\ LET run == run_simulation_calculations(settings, environment, basic_lvs,
                                              path_distances, speed)
       IN  /\ results' = run.results
           /\ route_length' = run.route_length
           /\ locals' = run.locals
           /\ time_zones' = run.time_zones
           /\ local_times' = run.local_times
           /\ basic_lvs' = run.basic_lvs
           /\ runs' = Append(runs, [speed_kmh |-> speed, results |-> run.results])
    /\ speed_kmh' = speed
    /\ pc' = caller
    /\ done' = done \cup {"run"}
    /\ UNCHANGED <<settings, environment, arrays_to_plot>>
    /\ UNCHANGED <<idxVars, fcVars, ghiVars, motorVars, weatherVars, gisVars, restVars>>

\* run_model after the call: it reads the result, and with plot_results it
\* plots a list of its own that holds the arrays.
RunModelParseAndPlot(plot_results) ==
    /\ pc = "run_model"
    /\ arrays_to_plot' =
           IF plot_results
           THEN plot_graph(timestamps(settings.simulation_duration),
                           result_arrays(results)).list
           ELSE arrays_to_plot
    /\ pc' = "idle"
    /\ UNCHANGED <<done, settings, environment, speed_kmh, route_length, results, locals,
                   time_zones, local_times, basic_lvs, runs>>
    /\ UNCHANGED <<idxVars, fcVars, ghiVars, motorVars, weatherVars, gisVars, restVars>>

\* optimize after the call: it plots the list of the result, arrays_to_plot.arrays.
OptimizePlot ==
    /\ pc = "optimize"
    /\ LET plot == plot_graph(timestamps(settings.simulation_duration),
                              result_arrays(results))
       IN  /\ arrays_to_plot' = plot.list
           /\ results' = with_arrays(results, plot.list)
    /\ pc' = "idle"
    /\ UNCHANGED <<done, settings, environment, speed_kmh, route_length, locals,
                   time_zones, local_times, basic_lvs, runs>>
    /\ UNCHANGED <<idxVars, fcVars, ghiVars, motorVars, weatherVars, gisVars, restVars>>

NextEngine ==
    \/ \E caller \in {"run_model", "optimize"} :
           \E speed \in EngineSpeedArrays(Len(timestamps(settings.simulation_duration))) :
               CallRunSimulationCalculations(caller, speed)
    \/ \E plot_results \in BOOLEAN : RunModelParseAndPlot(plot_results)
    \/ OptimizePlot

SpecEngine == InitEngine /\ [][NextEngine]_vars

\* C16: once __run_simulation_calculations has returned a result, the steps of
\* run_model and optimize that follow leave its arrays and its aggregates as
\* they were returned.
C16_ResultIsReadOnly ==
    runs # <<>> => results = Last(runs).results

----------------------------------------------------------------------------
(* WeatherForecasts.__init__                                               *)
(*                                                                         *)
(* A coordinate is a number that names it.  The provider answers every     *)
(* request: "current" with one entry, "hourly" with 48 and "daily" with 8; *)
(* dt is in hours from the time of the request, and the time-zone offset   *)
(* of the answers is 0.                                                    *)

DataFrequencies == {"current", "hourly", "daily"}

\* WeatherForecasts.cull_dataset: coords[::reduction_factor]
cull_dataset(coords, reduction_factor) == slice(coords, reduction_factor)

\* reduction_factor = 3 for FSGP and 625 for ASC
reduction_factor_of(race_type) == IF race_type = "FSGP" THEN 3 ELSE 625

\* response[weather_data_frequency] of the provider, by its dt
onecall(weather_data_frequency) ==
    CASE weather_data_frequency = "current" -> <<0>>
      [] weather_data_frequency = "hourly" -> [k \in 1..48 |-> k - 1]
      [] weather_data_frequency = "daily" -> [k \in 1..8 |-> 24 * (k - 1)]

\* WeatherForecasts.get_coord_weather_forecast
get_coord_weather_forecast(coord, weather_data_frequency, duration) ==
    IF weather_data_frequency \notin DataFrequencies
    THEN [raised |-> "RuntimeError", weather_array |-> <<>>]
    ELSE LET weather_data_list ==
                 onecall(weather_data_frequency)
                 \o (IF weather_data_frequency = "hourly" /\ duration > 24
                     THEN SubSeq(onecall("daily"), 3, Len(onecall("daily")))
                     ELSE <<>>)
         IN  [raised |-> "none",
              weather_array |->
                  [i \in 1..Len(weather_data_list) |->
                      forecast_row(coord, weather_data_list[i], 0)]]

\* time_length[weather_data_frequency] of update_path_weather_forecast
time_length(weather_data_frequency, duration) ==
    CASE weather_data_frequency = "current" -> 1
      [] weather_data_frequency = "hourly" -> IF duration > 48 THEN 54 ELSE 48
      [] weather_data_frequency = "daily" -> 8

\* WeatherForecasts.update_path_weather_forecast: KeyError for a frequency
\* that is no key of time_length, ValueError for an answer whose number of
\* rows is not the time length.
update_path_weather_forecast(coords, weather_data_frequency, duration) ==
    IF weather_data_frequency \notin DataFrequencies
    THEN [raised |-> "KeyError", weather_forecast |-> <<>>]
    ELSE LET answers ==
                 [i \in 1..Len(coords) |->
                     get_coord_weather_forecast(coords[i], weather_data_frequency, duration)]
         IN  IF \E i \in 1..Len(coords) : answers[i].raised # "none"
             THEN [raised |-> "RuntimeError", weather_forecast |-> <<>>]
             ELSE IF \E i \in 1..Len(coords) :
                         Len(answers[i].weather_array)
                             # time_length(weather_data_frequency, duration)
             THEN [raised |-> "ValueError", weather_forecast |-> <<>>]
             ELSE [raised |-> "none",
                   weather_forecast |->
                       [i \in 1..Len(coords) |-> answers[i].weather_array]]

\* A weather save file: np.savez(weather_forecast, origin_coord, dest_coord)
no_weather_file ==
    [exists |-> FALSE, weather_forecast |-> <<>>, origin_coord |-> 0, dest_coord |-> 0]

weather_file_of(forecast, origin_coord, dest_coord) ==
    [exists |-> TRUE, weather_forecast |-> forecast,
     origin_coord |-> origin_coord, dest_coord |-> dest_coord]

\* WeatherForecasts.__init__: the object, or the error raised, and the files.
WeatherForecasts_init(args, files) ==
    LET coords == cull_dataset(args.coords, reduction_factor_of(args.race_type))
        origin_coord == args.coords[1]
        dest_coord == Last(args.coords)
        weather_data == files[args.race_type]
        api_call_required ==
            ~(/\ weather_data.exists
              /\ ~args.force_update
              /\ weather_data.origin_coord = origin_coord
              /\ weather_data.dest_coord = dest_coord)
        fetched ==
            update_path_weather_forecast(coords, args.weather_data_frequency, args.duration)
        built(forecast) ==
            [state |-> "constructed", raised |-> "none", coords |-> coords,
             origin_coord |-> origin_coord, dest_coord |-> dest_coord,
             weather_forecast |-> forecast, last_updated_time |-> forecast[1][1].dt]
    IN  IF api_call_required \/ args.force_update
        THEN IF fetched.raised # "none"
             THEN [weather |->
                       [state |-> "failed", raised |-> fetched.raised, coords |-> coords,
                        origin_coord |-> origin_coord, dest_coord |-> dest_coord,
                        weather_forecast |-> <<>>, last_updated_time |-> -1],
                   files |-> files]
             ELSE [weather |-> built(fetched.weather_forecast),
                   files |->
                       [files EXCEPT ![args.race_type] =
                           weather_file_of(fetched.weather_forecast, origin_coord, dest_coord)]]
        ELSE [weather |-> built(weather_data.weather_forecast), files |-> files]

\* The arguments: routes with the same origin and two destinations, durations
\* in hours on both sides of 24 and of 48, a frequency that is none of the three.
WeatherRoutes == {<<1, 2>>, <<1, 3>>, <<1, 4, 5, 2>>}

Durations == {12, 36, 60}

RaceTypes == {"ASC", "FSGP"}

WeatherDataFrequencies == DataFrequencies \cup {"weekly"}

\* The save file of a race type before the construction: none, or what an
\* earlier construction with "daily" wrote for one of the routes.
WeatherFiles(race_type) ==
    {no_weather_file}
    \cup {WeatherForecasts_init([coords |-> c, duration |-> 12, race_type |-> race_type,
                                 weather_data_frequency |-> "daily",
                                 force_update |-> TRUE],
                                [t \in RaceTypes |-> no_weather_file]).files[race_type] :
             c \in WeatherRoutes}

InitWeather ==
    /\ done = {}
    /\ weather_args \in [coords : WeatherRoutes,
                         duration : Durations,
                         race_type : RaceTypes,
                         weather_data_frequency : WeatherDataFrequencies,
                         force_update : BOOLEAN]
    /\ \E file \in WeatherFiles(weather_args.race_type) :
           weather_files =
               [t \in RaceTypes |-> IF t = weather_args.race_type THEN file
                                    ELSE no_weather_file]
    /\ weather = <<>>
    /\ IdleIdx
    /\ IdleForecast
    /\ IdleGhi
    /\ IdleRun
    /\ IdleMotor
    /\ IdleGis
    /\ IdleRest

ConstructWeatherForecasts ==
    /\ "weather_init" \notin done
    /\ LET new == WeatherForecasts_init(weather_args, weather_files)
       IN  /\ weather' = new.weather
           /\ weather_files' = new.files
    /\ done' = done \cup {"weather_init"}
    /\ UNCHANGED weather_args
    /\ UNCHANGED <<idxVars, fcVars, ghiVars, runVars, motorVars, gisVars, restVars>>

NextWeather == ConstructWeatherForecasts

SpecWeather == InitWeather /\ [][NextWeather]_vars

\* C17: the construction of a WeatherForecasts with a weather_data_frequency
\* that is none of "current", "hourly", "daily" fails with an error, whatever
\* force_update is and whatever the weather save file holds.
C17_InvalidFrequencyFails ==
    ("weather_init" \in done /\ weather_args.weather_data_frequency \notin DataFrequencies)
        => weather.state = "failed"

----------------------------------------------------------------------------
(* GIS.__init__                                                            *)
(*                                                                         *)
(* A coordinate is a pair <<latitude, longitude>> of whole numbers.  The   *)
(* mapping provider answers a route request with a status and, with "OK",  *)
(* the decoded points of the route; it answers the k-th elevation request  *)
(* of a construction with a status and, with "OK", the elevation of every  *)
(* location of the request.  The length of a location string is counted in *)
(* coordinates.                                                            *)

MaxRoutePoints == 3    \* bound: the most points of a decoded route

LocationsLimit == 1    \* bound: the length a location string is cut at (8000 characters in the program)

Laps == 60

Coordinates == {<<0, 0>>, <<1, 0>>, <<0, 1>>}

\* np.delete(route, indices, axis=0), the indices counted from 0
delete(route, indices_0) ==
    LET kept == {i \in 1..Len(route) : (i - 1) \notin indices_0}
    IN  [k \in 1..Cardinality(kept) |->
            route[CHOOSE i \in kept : Cardinality({j \in kept : j <= i}) = k]]

\* np.tile(path, (laps, 1))
tile(path, laps) ==
    [i \in 1..Len(path) * laps |-> path[((i - 1) % Len(path)) + 1]]

\* duplicate_coordinate_indices = np.where(np.diff(route[:, 0]) == 0) and
\*     np.where(np.diff(route[:, 1]) == 0): both operands are non-empty tuples,
\* so "and" yields the second, the positions whose longitude is the next one's.
duplicate_coordinate_indices(route) ==
    {i \in 0..Len(route) - 2 : route[i + 2][2] - route[i + 1][2] = 0}

\* GIS.update_path: the route of the provider's answer without the
\* coordinates at duplicate_coordinate_indices.  With another status than
\* "OK" the status and response['error_message'] are printed (KeyError if the
\* answer has no such field) and the route is empty.
update_path(response) ==
    IF response.route_status = "OK"
    THEN [raised |-> "none",
          route |-> IF response.route = <<>> THEN <<>>
                    ELSE delete(response.route, duplicate_coordinate_indices(response.route))]
    ELSE IF response.has_error_message
         THEN [raised |-> "none", route |-> <<>>]
         ELSE [raised |-> "KeyError", route |-> <<>>]

\* The location strings of calculate_path_elevations: a string is closed as
\* soon as it is longer than the limit, and what is left makes the last one.
location_strings(coords) ==
    LET per_string == LocationsLimit + 1
    IN  [k \in 1..((Len(coords) + per_string - 1) \div per_string) |->
            SubSeq(coords, (k - 1) * per_string + 1, Min(k * per_string, Len(coords)))]

\* The elevation the provider has for a coordinate; it is never 0.
elevation_of(coord) == 1 + coord[1] + 2 * coord[2]

\* GIS.calculate_path_elevations: every location string is requested, and the
\* answer to the last request is read after the loop (UnboundLocalError if
\* there was no request); with "OK" its elevations are written from index 0
\* on, with another status the zeros stay.
calculate_path_elevations(coords, elevation_statuses) ==
    LET strings == location_strings(coords)
        last_request == Len(strings)
        found == [i \in 1..Len(strings[last_request]) |->
                     elevation_of(strings[last_request][i])]
    IN  IF strings = <<>>
        THEN [raised |-> "UnboundLocalError", elevations |-> <<>>]
        ELSE [raised |-> "none",
              elevations |->
                  [i \in 1..Len(coords) |->
                      IF elevation_statuses[last_request] = "OK" /\ i <= Len(found)
                      THEN found[i] ELSE 0]]

\* GIS.calculate_time_zones: the UTC offset of the zone of every coordinate,
\* an hour per unit of longitude.
calculate_time_zones(coords) ==
    [i \in 1..Len(coords) |-> coords[i][2] * SecondsPerHour]

\* helpers.calculate_path_distances (from the specification, 3: a great-circle
\* distance between consecutive coordinates); on the grid of the model the sum
\* of the two differences, which is 0 for coinciding coordinates only.
calculate_path_distances(coords) ==
    [i \in 1..Len(coords) - 1 |->
        Abs(coords[i + 1][1] - coords[i][1]) + Abs(coords[i + 1][2] - coords[i][2])]

\* A route save file: np.savez(path, elevations, time_zones, origin_coord,
\* dest_coord, waypoints)
no_route_file ==
    [exists |-> FALSE, path |-> <<>>, elevations |-> <<>>, time_zones |-> <<>>,
     origin_coord |-> <<>>, dest_coord |-> <<>>, waypoints |-> <<>>]

\* The object a construction that raised leaves: none.
failed_gis(raised) ==
    [state |-> "failed", raised |-> raised, api_called |-> TRUE, saved |-> FALSE,
     path |-> <<>>, path_elevations |-> <<>>, path_time_zones |-> <<>>,
     path_distances |-> <<>>]

\* A test of the save file that leaves the waypoints out.
route_api_call_required_by_endpoints(args, route_data) ==
    ~(/\ route_data.exists
      /\ ~args.force_update
      /\ route_data.origin_coord = args.origin_coord
      /\ route_data.dest_coord = args.dest_coord)

\* api_call_required of GIS.__init__: False only when the route file exists,
\* force_update is False and the file's origin, destination and waypoints
\* equal the requested ones.
route_api_call_required(args, route_data) ==
    ~(/\ route_data.exists
      /\ ~args.force_update
      /\ route_data.origin_coord = args.origin_coord
      /\ route_data.dest_coord = args.dest_coord
      /\ route_data.waypoints = args.waypoints)

\* GIS.__init__: the object, or the error raised, and the files.
GIS_init(args, response, files) ==
    LET route_data == files[args.race_type]
        api_call_required == route_api_call_required(args, route_data)
        called == api_call_required \/ args.force_update
        updated == update_path(response)
        elevated == calculate_path_elevations(updated.route, response.elevation_statuses)
        path_1 == IF called THEN updated.route ELSE route_data.path
        path_elevations_1 == IF called THEN elevated.elevations ELSE route_data.elevations
        path_time_zones_1 ==
            IF called THEN calculate_time_zones(path_1) ELSE route_data.time_zones
        written ==
            [exists |-> TRUE, path |-> path_1, elevations |-> path_elevations_1,
             time_zones |-> path_time_zones_1, origin_coord |-> args.origin_coord,
             dest_coord |-> args.dest_coord, waypoints |-> args.waypoints]
        path_2 == IF args.race_type = "FSGP" THEN tile(path_1, Laps) ELSE path_1
    IN  IF called /\ updated.raised # "none"
        THEN [gis |-> failed_gis(updated.raised), files |-> files]
        ELSE IF called /\ elevated.raised # "none"
        THEN [gis |-> failed_gis(elevated.raised), files |-> files]
        ELSE [gis |->
                  [state |-> "constructed", raised |-> "none",
                   api_called |-> called, saved |-> called,
                   path |-> path_2,
                   path_elevations |->
                       IF args.race_type = "FSGP" THEN tile(path_elevations_1, Laps)
                       ELSE path_elevations_1,
                   path_time_zones |->
                       IF args.race_type = "FSGP" THEN calculate_time_zones(path_2)
                       ELSE path_time_zones_1,
                   path_distances |-> calculate_path_distances(path_2)],
              files |-> IF called THEN [files EXCEPT ![args.race_type] = written]
                        ELSE files]

\* What the provider can answer: a route of up to MaxRoutePoints points and a
\* status for every elevation request, or a refusal of the route request.
DecodedRoutes == SeqsOf(Coordinates, 0, MaxRoutePoints)

ElevationStatuses == {"OK", "OVER_QUERY_LIMIT"}

RouteRefusals == {"ZERO_RESULTS", "REQUEST_DENIED"}

MaxRequests == (MaxRoutePoints + LocationsLimit) \div (LocationsLimit + 1)

ProviderAnswers ==
    {[route_status |-> "OK", has_error_message |-> FALSE, route |-> r,
      elevation_statuses |-> e] :
        r \in DecodedRoutes, e \in [1..MaxRequests -> ElevationStatuses]}
    \cup {[route_status |-> s, has_error_message |-> b, route |-> <<>>,
           elevation_statuses |-> [k \in 1..MaxRequests |-> "OK"]] :
             s \in RouteRefusals, b \in BOOLEAN}

\* The arguments: two requests that differ in the waypoints.
GisRequests ==
    {[origin_coord |-> <<0, 0>>, dest_coord |-> <<0, 1>>, waypoints |-> w] :
        w \in {<<>>, <<<<1, 0>>>>}}

GisArguments ==
    {[origin_coord |-> q.origin_coord, dest_coord |-> q.dest_coord,
      waypoints |-> q.waypoints, race_type |-> r, force_update |-> f] :
        q \in GisRequests, r \in RaceTypes, f \in BOOLEAN}

InitGis ==
    /\ done = {}
    /\ gis_args = <<>>
    /\ provider \in ProviderAnswers
    /\ route_files = [t \in RaceTypes |-> no_route_file]
    /\ gis = <<>>
    /\ IdleIdx
    /\ IdleForecast
    /\ IdleGhi
    /\ IdleRun
    /\ IdleMotor
    /\ IdleWeather
    /\ IdleRest

\* A construction; a second one finds the files the first one left.
ConstructGIS(args) ==
    /\ "gis_init_again" \notin done
    /\ LET new == GIS_init(args, provider, route_files)
       IN  /\ gis' = new.gis
           /\ route_files' = new.files
    /\ gis_args' = args
    /\ done' = done \cup {IF "gis_init" \in done THEN "gis_init_again" ELSE "gis_init"}
    /\ UNCHANGED provider
    /\ UNCHANGED <<idxVars, fcVars, ghiVars, runVars, motorVars, weatherVars, restVars>>

NextGis == \E args \in GisArguments : ConstructGIS(args)

SpecGis == InitGis /\ [][NextGis]_vars

\* The elevation requests a construction makes for the provider's route.
requests_made == Len(location_strings(update_path(provider).route))

\* The provider answered a request of the construction with another status
\* than "OK".
provider_refused ==
    \/ provider.route_status # "OK"
    \/ \E k \in 1..requests_made : provider.elevation_statuses[k] # "OK"

\* C18: when the provider answers the route request or an elevation request
\* of a construction with a non-OK status, the construction does not go on:
\* no object holding an empty path or zeros for elevations is made, and
\* nothing is written to the route save file.
C18_NoSubstituteData ==
    ("gis_init" \in done /\ gis.api_called /\ provider_refused)
        => (gis.state = "failed" /\ ~gis.saved)

\* The route without the coordinates that equal their successor in latitude
\* and in longitude.
without_duplicates(route) ==
    delete(route, {i \in 0..Len(route) - 2 : route[i + 1] = route[i + 2]})

\* C19: update_path removes from the decoded route exactly the coordinates
\* that are identical to their successor: the path a construction gets from
\* it, and saves, is the provider's route without those coordinates.
C19_ExactlyDuplicatesRemoved ==
    ("gis_init" \in done /\ gis.saved)
        => route_files[gis_args.race_type].path = without_duplicates(provider.route)

\* C20: after a construction by any path (provider route, save file, FSGP
\* laps) no two consecutive coordinates of the path coincide, and every
\* entry of path_distances is nonzero.
C20_NoCoincidingNeighbours ==
    ("gis_init" \in done /\ gis.state = "constructed")
        => \A i \in 1..Len(gis.path) - 1 :
               gis.path[i] # gis.path[i + 1] /\ gis.path_distances[i] # 0

\* The requested origin, destination and waypoints are the ones of the file.
same_route_key(args, route_data) ==
    /\ route_data.origin_coord = args.origin_coord
    /\ route_data.dest_coord = args.dest_coord
    /\ route_data.waypoints = args.waypoints

\* A construction step: the arguments, object and files after it against the
\* files before it.  It queries the provider exactly when force_update is
\* true, no file exists for the race type or the file's key differs; a
\* construction that got the provider's data leaves the file with the
\* requested key; and after such a construction one with the same key, the
\* same race type and force_update = False does not query the provider and
\* holds the file's path, elevations and time zones (as laps for FSGP).
construction_follows_the_file ==
    LET args == gis_args'
        route_data == route_files[args.race_type]
        laps == IF args.race_type = "FSGP" THEN Laps ELSE 1
    IN  /\ gis'.api_called
               <=> (args.force_update \/ ~route_data.exists \/ ~same_route_key(args, route_data))
        /\ gis'.saved
               => (/\ route_files'[args.race_type].exists
                   /\ same_route_key(args, route_files'[args.race_type])
                   /\ route_files'[args.race_type].path = gis'.path \/ args.race_type = "FSGP")
        /\ (/\ "gis_init" \in done
            /\ gis.saved
            /\ args.race_type = gis_args.race_type
            /\ same_route_key(args, gis_args)
            /\ ~args.force_update)
               => (/\ ~gis'.api_called
                   /\ gis'.state = "constructed"
                   /\ route_files' = route_files
                   /\ gis'.path = tile(route_data.path, laps)
                   /\ gis'.path_elevations = tile(route_data.elevations, laps)
                   /\ gis'.path_time_zones = tile(route_data.time_zones, laps))

\* C21: a GIS construction queries the mapping provider exactly when
\* force_update is true, or no route file exists for the race type, or the
\* (origin, destination, waypoints) of the file differ from the requested
\* ones; it then rewrites the file with the new key, so that a following
\* construction with the same key, the same race type and force_update =
\* False uses the stored path, elevations and time zones without a query.
C21_ProviderQueriedExactlyOnMiss == [][construction_follows_the_file]_vars

\* A second construction answered from the file the first one wrote.
C21_Witness ==
    /\ "gis_init_again" \in done
    /\ gis.state = "constructed"
    /\ ~gis.api_called
    /\ route_files[gis_args.race_type].exists
    /\ same_route_key(gis_args, route_files[gis_args.race_type])
    /\ gis.path # <<>>

\* C22: calculate_path_elevations returns, for every number of coordinates
\* (several location strings included), an array whose entry i is the
\* elevation the provider reported for coordinate i: with every request of
\* the construction answered "OK", the elevations saved with the path are
\* the provider's elevations of the path's coordinates.
C22_ElevationPerCoordinate ==
    ("gis_init" \in done /\ gis.saved /\ ~provider_refused)
        => LET route_data == route_files[gis_args.race_type]
           IN  \A i \in 1..Len(route_data.path) :
                   route_data.elevations[i] = elevation_of(route_data.path[i])

----------------------------------------------------------------------------
(* Further properties of a run                                             *)

\* C23: in a run the time-in-motion of a tick is the tick length exactly
\* when the effective speed reported for the tick is nonzero, and 0
\* otherwise; the distance of a tick is effective speed * time-in-motion
\* (in 1/3600 km), so the reported distances are its clamped running total;
\* and the reported time taken is the sum of the time-in-motion values.
C23_TimeInMotionFollowsSpeed ==
    "run" \in done =>
        /\ \A i \in Ticks :
               locals.time_in_motion[i] = (IF results.speed_kmh[i] # 0 THEN tick ELSE 0)
        /\ results.distances =
               clip(cumsum(times(results.speed_kmh, locals.time_in_motion)), 0, route_length)
        /\ results.time_taken = sum(locals.time_in_motion)

----------------------------------------------------------------------------
(* The tick grid and the driving mask, for a tick of any length            *)

\* np.arange(0, stop, step)
arange_by(stop, step) == [i \in 1..((stop + step - 1) \div step) |-> (i - 1) * step]

\* The shape test of np.logical_and(speed_kmh, not_charge): arrays of one
\* length, or one of them of length 1.
broadcastable(a, b) == Len(a) = Len(b) \/ Len(a) = 1 \/ Len(b) = 1

\* Simulation.timestamps of __init__ and the not_charge of
\* __run_simulation_calculations, which has an entry for every second of the
\* run; the speeds of a run have the length of the timestamps.
tick_grid_of(args) ==
    LET stamps == arange_by(args.simulation_duration + args.tick, args.tick)
        not_charge ==
            not_charge_of(simulation_hours_by_second(args.start_hour,
                                                     args.simulation_duration))
    IN  [timestamps |-> stamps,
         not_charge |-> not_charge,
         raised |-> IF broadcastable(stamps, not_charge) THEN "none" ELSE "ValueError"]

HoursOfDay == 0..23

InitGrid ==
    /\ done = {}
    /\ grid_args \in [tick : TickLengths,
                      simulation_duration : {h * SecondsPerHour : h \in 1..MaxHours},
                      start_hour : HoursOfDay]
    /\ tick_grid = <<>>
    /\ IdleIdx
    /\ IdleForecast
    /\ IdleGhi
    /\ IdleRun
    /\ IdleMotor
    /\ IdleWeather
    /\ IdleGis
    /\ IdlePosition
    /\ IdleTickWeather
    /\ IdleInitTime

BuildTickGrid ==
    /\ "grid" \notin done
    /\ tick_grid' = tick_grid_of(grid_args)
    /\ done' = done \cup {"grid"}
    /\ UNCHANGED grid_args
    /\ UNCHANGED <<idxVars, fcVars, ghiVars, runVars, motorVars, weatherVars, gisVars,
                   positionVars, tickWeatherVars, initTimeVars>>

NextGrid == BuildTickGrid

SpecGrid == InitGrid /\ [][NextGrid]_vars

\* C24: for every tick and simulation_duration the tick grid has
\* simulation_duration / tick + 1 strictly increasing timestamps that start
\* at 0, and the driving mask has one entry for every timestamp, entry i
\* decided by the hour of the day of timestamp i.
C24_MaskPerTimestamp ==
    "grid" \in done =>
        LET stamps == tick_grid.timestamps
            hour(i) == (grid_args.start_hour + stamps[i] \div SecondsPerHour) % 24
        IN  /\ Len(stamps) = grid_args.simulation_duration \div grid_args.tick + 1
            /\ stamps[1] = 0
            /\ \A i \in 1..Len(stamps) - 1 : stamps[i] < stamps[i + 1]
            /\ Len(tick_grid.not_charge) = Len(stamps)
            /\ \A i \in 1..Len(stamps) :
                   tick_grid.not_charge[i] =
                       (IF hour(i) <= CurfewMorningEnd \/ hour(i) >= CurfewEveningStart
                        THEN 0 ELSE 1)

----------------------------------------------------------------------------
(* The weather of every tick of a run (__run_simulation_calculations)      *)
(*                                                                         *)
(* The forecast is the "daily" one the engine asks for: for every          *)
(* coordinate a row per day from last_updated_time on.  A row keeps, of    *)
(* its nine fields, the coordinate, dt, timezone_offset, dt +              *)
(* timezone_offset, wind_speed (5), wind_direction (6) and cloud_cover (7).*)

weather_row(coord, dt, timezone_offset, wind_speed, wind_direction, clouds) ==
    [coord |-> coord, dt |-> dt, timezone_offset |-> timezone_offset,
     dt_local |-> dt + timezone_offset,
     wind_speed |-> wind_speed, wind_direction |-> wind_direction,
     cloud_cover |-> clouds]

\* np.roll(a, shift, 0): row i of the result is row i - shift of a, the
\* positions counted from 0 and taken modulo the length.
roll(a, shift) == [i \in 1..Len(a) |-> a[((i - 1 - shift) % Len(a)) + 1]]

\* The weather part of the run: the rows get_weather_forecast_in_time
\* selects, rolled by roll_by_tick, and the three arrays read from them;
\* cloud_covers is then replaced by np.zeros_like(cloud_covers).
tick_weather_of(start_hour, forecast, closest_weather_indices, times_of_ticks) ==
    LET weather_forecasts_1 ==
            get_weather_forecast_in_time(forecast, closest_weather_indices, times_of_ticks)
        roll_by_tick ==
            SecondsPerHour
                * (24 + start_hour - hour_from_unix_timestamp(weather_forecasts_1[1].dt))
        weather_forecasts == roll(weather_forecasts_1, 0 - roll_by_tick)
    IN  [weather_forecasts |-> weather_forecasts,
         absolute_wind_speeds |->
             [i \in 1..Len(weather_forecasts) |-> weather_forecasts[i].wind_speed],
         wind_directions |->
             [i \in 1..Len(weather_forecasts) |-> weather_forecasts[i].wind_direction],
         cloud_covers |-> [i \in 1..Len(weather_forecasts) |-> 0]]

\* The daily forecast of NumCoords coordinates fetched at last_updated_time;
\* wind and clouds differ from row to row and from coordinate to coordinate.
DaysOfForecast == 3

daily_weather_forecast(last_updated_time, number_of_coords) ==
    [c \in 1..number_of_coords |->
        [j \in 1..DaysOfForecast |->
            weather_row(c - 1, last_updated_time + (j - 1) * 24 * SecondsPerHour, 0,
                        c + 2 * j, 90 * (c - 1) + 10 * j, 20 * j + 5 * c)]]

TickWeatherStartHours == {9, 12, 17}

LastUpdatedHours == {0, 13, 20}

\* The weather index of every tick: it starts at 0 and does not go down.
TickWeatherIndices(n) ==
    {s \in [1..n -> 0..MaxCoords - 1] :
        s[1] = 0 /\ \A i \in 1..n - 1 : s[i] <= s[i + 1]}

InitTickWeather ==
    /\ done = {}
    /\ \E h \in 1..MaxHours, s \in TickWeatherStartHours, u \in LastUpdatedHours :
           \E w \in TickWeatherIndices(h * SecondsPerHour + 1) :
               LET last_updated_time == u * SecondsPerHour
                   time_of_initialization ==
                       time_of_initialization_of(s, last_updated_time)
               IN  tick_weather_args =
                       [start_hour |-> s,
                        weather_forecast |->
                            daily_weather_forecast(last_updated_time, MaxCoords),
                        closest_weather_indices |-> w,
                        local_times |->
                            [i \in 1..Len(w) |-> time_of_initialization + (i - 1) * tick]]
    /\ tick_weather = <<>>
    /\ IdleIdx
    /\ IdleForecast
    /\ IdleGhi
    /\ IdleRun
    /\ IdleMotor
    /\ IdleWeather
    /\ IdleGis
    /\ IdleGrid
    /\ IdlePosition
    /\ IdleInitTime

ResolveTickWeather ==
    /\ "tick_weather" \notin done
    /\ tick_weather' =
           tick_weather_of(tick_weather_args.start_hour, tick_weather_args.weather_forecast,
                           tick_weather_args.closest_weather_indices,
                           tick_weather_args.local_times)
    /\ done' = done \cup {"tick_weather"}
    /\ UNCHANGED tick_weather_args
    /\ UNCHANGED <<idxVars, fcVars, ghiVars, runVars, motorVars, weatherVars, gisVars,
                   gridVars, positionVars, initTimeVars>>

NextTickWeather == ResolveTickWeather

SpecTickWeather == InitTickWeather /\ [][NextTickWeather]_vars

\* C25: at every tick i of a run the wind speed, wind direction and cloud
\* cover used and reported are the fields of the forecast row that
\* get_weather_forecast_in_time selected for tick i's own weather index and
\* local time.
C25_WeatherOfOwnTick ==
    "tick_weather" \in done =>
        LET selected ==
                get_weather_forecast_in_time(tick_weather_args.weather_forecast,
                                             tick_weather_args.closest_weather_indices,
                                             tick_weather_args.local_times)
        IN  \A i \in 1..Len(selected) :
                /\ tick_weather.absolute_wind_speeds[i] = selected[i].wind_speed
                /\ tick_weather.wind_directions[i] = selected[i].wind_direction
                /\ tick_weather.cloud_covers[i] = selected[i].cloud_cover

----------------------------------------------------------------------------
(* Further properties of the WeatherForecasts construction                 *)

\* C26: for every weather_data_frequency and duration, with a provider that
\* returns 1 current, 48 hourly and 8 daily entries, the rows
\* get_coord_weather_forecast builds for a coordinate are as many as
\* update_path_weather_forecast allocated, so that the forecast of every
\* coordinate is stored without a shape error.
C26_RowsFitAllocation ==
    ("weather_init" \in done /\ weather_args.weather_data_frequency \in DataFrequencies)
        => /\ \A i \in 1..Len(weather_args.coords) :
                  Len(get_coord_weather_forecast(weather_args.coords[i],
                                                 weather_args.weather_data_frequency,
                                                 weather_args.duration).weather_array)
                      = time_length(weather_args.weather_data_frequency,
                                    weather_args.duration)
           /\ weather.raised # "ValueError"

----------------------------------------------------------------------------
(* GIS.update_vehicle_position                                             *)

MaxCalls == 3          \* bound: the most calls made on one object

MaxIncrement == 3      \* bound: the largest incremental_distance

\* a[i] of NumPy for an index counted from 0; a negative one counts from the
\* end.
item(a, i) == IF i < 0 THEN a[Len(a) + i + 1] ELSE a[i + 1]

\* update_vehicle_position that does not step back after the loop.
update_vehicle_position_overshooting(position, distances_of_path, incremental_distance) ==
    LET RECURSIVE advance(_, _)
        advance(additional_distance, current_index) ==
            IF additional_distance <= 0
            THEN [raised |-> "none", additional_distance |-> additional_distance,
                  current_index |-> current_index]
            ELSE IF current_index >= Len(distances_of_path)
            THEN [raised |-> "IndexError", additional_distance |-> additional_distance,
                  current_index |-> current_index]
            ELSE advance(additional_distance - item(distances_of_path, current_index),
                         current_index + 1)
        after == advance(position.distance_remainder + incremental_distance,
                         position.current_index)
    IN  IF after.raised # "none"
        THEN [raised |-> after.raised,
              position |-> [current_index |-> after.current_index,
                            distance_remainder |-> position.distance_remainder],
              returned |-> after.current_index]
        ELSE [raised |-> "none",
              position |-> [current_index |-> after.current_index,
                            distance_remainder |-> after.additional_distance],
              returned |-> after.current_index]

\* GIS.update_vehicle_position: the object after the call and the index
\* returned.  The loop takes the length of a segment off the distance and
\* moves the index on while the distance is positive (IndexError past the
\* last segment); then the last segment is given back.
update_vehicle_position(position, distances_of_path, incremental_distance) ==
    LET RECURSIVE advance(_, _)
        advance(additional_distance, current_index) ==
            IF additional_distance <= 0
            THEN [raised |-> "none", additional_distance |-> additional_distance,
                  current_index |-> current_index]
            ELSE IF current_index >= Len(distances_of_path)
            THEN [raised |-> "IndexError", additional_distance |-> additional_distance,
                  current_index |-> current_index]
            ELSE advance(additional_distance - item(distances_of_path, current_index),
                         current_index + 1)
        after == advance(position.distance_remainder + incremental_distance,
                         position.current_index)
    IN  IF after.raised # "none"
        THEN [raised |-> after.raised,
              position |-> [current_index |-> after.current_index,
                            distance_remainder |-> position.distance_remainder],
              returned |-> after.current_index]
        ELSE [raised |-> "none",
              position |->
                  [current_index |-> after.current_index - 1,
                   distance_remainder |->
                       after.additional_distance
                           + item(distances_of_path, after.current_index - 1)],
              returned |-> after.current_index - 1]

\* The segment lengths of the route the calls are made on.
PositionRoutes == SeqsOf({1, 2}, 2, 3)

\* A freshly constructed GIS: current_index = 0, distance_remainder = 0.
InitPosition ==
    /\ done = {}
    /\ position_route \in PositionRoutes
    /\ gis_position = [current_index |-> 0, distance_remainder |-> 0]
    /\ position_calls = <<>>
    /\ IdleIdx
    /\ IdleForecast
    /\ IdleGhi
    /\ IdleRun
    /\ IdleMotor
    /\ IdleWeather
    /\ IdleGis
    /\ IdleGrid
    /\ IdleTickWeather
    /\ IdleInitTime

\* A call; an IndexError ends the program.
CallUpdateVehiclePosition(incremental_distance) ==
    /\ Len(position_calls) < MaxCalls
    /\ \A k \in 1..Len(position_calls) : position_calls[k].raised = "none"
    /\ LET call == update_vehicle_position(gis_position, position_route,
                                           incremental_distance)
       IN  /\ gis_position' = call.position
           /\ position_calls' =
                  Append(position_calls,
                         [incremental_distance |-> incremental_distance,
                          raised |-> call.raised, returned |-> call.returned])
    /\ done' = done \cup {"update_vehicle_position"}
    /\ UNCHANGED position_route
    /\ UNCHANGED <<idxVars, fcVars, ghiVars, runVars, motorVars, weatherVars, gisVars,
                   gridVars, tickWeatherVars, initTimeVars>>

NextPosition == \E d \in 0..MaxIncrement : CallUpdateVehiclePosition(d)

SpecPosition == InitPosition /\ [][NextPosition]_vars

\* The total of the increments of the calls made.
total_of_increments ==
    sum([k \in 1..Len(position_calls) |-> position_calls[k].incremental_distance])

\* C27: after calls with strictly positive increments whose running total
\* stays below the route length, the lengths of the segments before
\* current_index plus distance_remainder are the total of the increments,
\* and 0 < distance_remainder <= path_distances[current_index].
C27_PositionIsTotal ==
    (/\ position_calls # <<>>
     /\ \A k \in 1..Len(position_calls) : position_calls[k].incremental_distance > 0
     /\ total_of_increments < sum(position_route))
        => /\ gis_position.current_index \in 0..Len(position_route) - 1
           /\ sum(SubSeq(position_route, 1, gis_position.current_index))
                  + gis_position.distance_remainder = total_of_increments
           /\ 0 < gis_position.distance_remainder
           /\ gis_position.distance_remainder
                  <= item(position_route, gis_position.current_index)

\* Two calls or more that took the vehicle into a later segment, short of its
\* end.
C27_Witness ==
    /\ Len(position_calls) >= 2
    /\ \A k \in 1..Len(position_calls) : position_calls[k].incremental_distance > 0
    /\ total_of_increments < sum(position_route)
    /\ gis_position.current_index >= 1
    /\ gis_position.distance_remainder < item(position_route, gis_position.current_index)

\* C28: in calls with non-negative increments whose running total stays
\* within the route length, a zero increment on a fresh object included,
\* every index returned is in [0, N-2], N the number of coordinates, and is
\* not smaller than the index the call before returned.
C28_ReturnedIndexInRange ==
    total_of_increments <= sum(position_route)
        => \A k \in 1..Len(position_calls) :
               /\ position_calls[k].raised = "none"
               /\ position_calls[k].returned \in 0..Len(position_route) - 1
               /\ k > 1 => position_calls[k - 1].returned <= position_calls[k].returned

----------------------------------------------------------------------------
(* The reported distance against the distance the indices were picked by   *)

\* No tick up to i has a state of charge of 0 or the route length reached.
undisturbed_until(i) ==
    \A j \in 1..i :
        results.state_of_charge[j] # 0 /\ results.distances[j] # route_length

\* Tick i is the first one with a state of charge of 0 or with the route
\* length reached.
first_disturbed(i) ==
    /\ undisturbed_until(i - 1)
    /\ ~undisturbed_until(i)

\* C29, as stated: for non-negative input speeds the cumulative distance a
\* run reports is at no tick larger than the unconstrained cumulative
\* distance by which the route and weather indices of the tick were picked,
\* and the two are equal at every tick up to the first one with a state of
\* charge of 0 or with the route length reached, that tick included.
C29_EqualThroughFirstDisturbedTick ==
    "run" \in done =>
        /\ \A i \in Ticks : results.distances[i] <= locals.cumulative_distances[i]
        /\ \A i \in Ticks :
               undisturbed_until(i - 1)
                   => results.distances[i] = locals.cumulative_distances[i]

\* C29, amended: for non-negative input speeds the cumulative distance a run
\* reports (gated by the state of charge, clamped to the route length) is at
\* no tick larger than the unconstrained cumulative distance by which the
\* route and weather indices of the tick were picked, and the two are equal
\* at every tick before the first one with a state of charge of 0 or with the
\* route length reached.
C29_ReportedWithinExpected ==
    "run" \in done =>
        /\ \A i \in Ticks : results.distances[i] <= locals.cumulative_distances[i]
        /\ \A i \in Ticks :
               undisturbed_until(i) => results.distances[i] = locals.cumulative_distances[i]

\* A run that covers distance undisturbed up to the tick before the first
\* disturbed one, and at that tick reports less than the unconstrained
\* distance.
C29_Witness ==
    /\ "run" \in done
    /\ \E k \in Ticks :
           /\ k > 1
           /\ first_disturbed(k)
           /\ results.distances[k - 1] > 0
           /\ results.distances[k - 1] = locals.cumulative_distances[k - 1]
           /\ results.distances[k] < locals.cumulative_distances[k]

----------------------------------------------------------------------------
(* Simulation.time_of_initialization                                       *)

\* The time of the first forecast row: any second of a day.
LastUpdatedTimes == 0..(24 * SecondsPerHour - 1)

InitInitTime ==
    /\ done = {}
    /\ init_time_args \in [start_hour : HoursOfDay, last_updated_time : LastUpdatedTimes]
    /\ init_time = <<>>
    /\ IdleIdx
    /\ IdleForecast
    /\ IdleGhi
    /\ IdleRun
    /\ IdleMotor
    /\ IdleWeather
    /\ IdleGis
    /\ IdleGrid
    /\ IdlePosition
    /\ IdleTickWeather

SetTimeOfInitialization ==
    /\ "time_of_initialization" \notin done
    /\ init_time' =
           time_of_initialization_of(init_time_args.start_hour,
                                     init_time_args.last_updated_time)
    /\ done' = done \cup {"time_of_initialization"}
    /\ UNCHANGED init_time_args
    /\ UNCHANGED <<idxVars, fcVars, ghiVars, runVars, motorVars, weatherVars, gisVars,
                   gridVars, positionVars, tickWeatherVars>>

NextInitTime == SetTimeOfInitialization

SpecInitTime == InitInitTime /\ [][NextInitTime]_vars

\* C30: for every start_hour in 0..23 and every last_updated_time of the
\* weather, time_of_initialization is later than last_updated_time by a
\* whole number of hours between 1 and 47, and its UTC hour of the day is
\* start_hour.
C30_InitializationAtStartHour ==
    "time_of_initialization" \in done =>
        LET later_by == init_time - init_time_args.last_updated_time
        IN  /\ later_by % SecondsPerHour = 0
            /\ later_by \div SecondsPerHour \in 1..47
            /\ hour_from_unix_timestamp(init_time) = init_time_args.start_hour

\* A forecast fetched inside an hour that is later in the day than the start
\* hour: the run starts on the next day.
C30_Witness ==
    /\ "time_of_initialization" \in done
    /\ init_time_args.last_updated_time % SecondsPerHour # 0
    /\ hour_from_unix_timestamp(init_time_args.last_updated_time) > init_time_args.start_hour
    /\ init_time > init_time_args.last_updated_time

=============================================================================
